---- MODULE Spec2Model ----
(***************************************************************************)
(* WattBoxClient (custom_components/wb800/client.py): the authentication   *)
(* negotiation `_ensure_logged_in` and the public operations that run it,  *)
(* called concurrently by several tasks of one asyncio event loop.         *)
(*                                                                         *)
(* A step of the model is what one task does between two suspension        *)
(* points (`await` of an HTTP exchange, or of the lock): a response        *)
(* arrives, the code branches on it and issues the next request.           *)
(*                                                                         *)
(* Spec       : the operations of an open client, in every interleaving.   *)
(* SpecClose  : operations one at a time, with async_close running         *)
(*              concurrently with them.                                    *)
(* SpecEnergy : one energy sensor (custom_components/wb800/sensor.py)      *)
(*              handling coordinator updates and its restore.              *)
(* SpecPair   : the whole-device energy sensor and an outlet's energy      *)
(*              sensor side by side, fed the same updates and the same     *)
(*              persisted state.                                           *)
(* SpecParse  : the extractors parse_outlets_from_html and                 *)
(*              parse_metrics_from_html applied to one status page.        *)
(* SpecFair   : Spec with every request answered and the lock's queue      *)
(*              served, for a client that creates its own session.         *)
(* SpecSensor : the power and current sensors of one outlet, from platform *)
(*              setup through the coordinator's refreshes.                 *)
(* SpecSwitch : the switch of one outlet (custom_components/wb800/         *)
(*              switch.py): setup, polling and its service calls.          *)
(***************************************************************************)
EXTENDS Naturals, Integers, Sequences, FiniteSets, TLC

\* Number of tasks calling into the one client concurrently.
NumCallers == 2
\* Cap on the httpx.AsyncClient objects the client instantiates in a run.
MaxHttpx == 2

\* Cap on the coordinator updates one energy sensor handles in a run.
MaxObservations == 3
\* Cap on the coordinator updates two sensors side by side handle in a run.
MaxPairObservations == 2

Callers == 1..NumCallers

VARIABLES
    pc,            \* per caller: where its task is suspended
    op,            \* per caller: the public method whose request is in flight
    sent,          \* per caller: the requests its current call has issued
    outcome,       \* per caller: the exit taken by its _ensure_logged_in
    result,        \* per caller: how its call ended ("ok" or an exception)
    lock,          \* self._lock: 0, or the caller holding it
    waiters,       \* self._lock's FIFO of suspended acquirers
    session,       \* self._session: "none", "own" (created here), "ext" (supplied)
    own_session,   \* self._own_session
    basic_auth,    \* self._basic_auth: "unset" (no attribute), "none", "auth"
    httpx_client,  \* self._httpx_client: 0 (None) or the id of the instance
    httpx_made,    \* how many httpx.AsyncClient instances have been created
    httpx_open,    \* ids of the httpx.AsyncClient instances created and not closed
    negotiator,    \* the exit of the last negotiation that reached a verdict
    digest_confirmed, \* whether a negotiation has ended at the Digest probe's 200/304
    own_open,      \* aiohttp sessions created by the client and not closed
    ext_closed,    \* whether the session supplied at construction was closed
    close_pc,      \* where the task running async_close is suspended
    last_power,    \* integrator: self._last_power, << >> (None) or <<watts>>
    last_update,   \* integrator: self._last_update, << >> (None) or <<hour>>
    total_energy,  \* integrator: self._total_energy, in units of 1/2000 kWh
    restored,      \* integrator: whether async_added_to_hass has run
    observations,  \* integrator: coordinator updates handled so far
    outlet_last_power,   \* outlet integrator: self._last_power
    outlet_last_update,  \* outlet integrator: self._last_update
    outlet_total_energy, \* outlet integrator: self._total_energy
    html,          \* extractor: the status page, as the elements the selectors find
    outlets,       \* extractor: << >>, or <<the list parse_outlets_from_html returned>>
    metrics,       \* extractor: << >>, or <<the DeviceMetrics parse_metrics_from_html returned>>
    fetched,       \* async_fetch_metrics: << >>, or <<the DeviceMetrics it returned>>
    main_gets,     \* async_fetch_metrics: the GETs of /main it has issued for its page
    coordinator_data, \* coordinator.data: << >> (None) or <<WattBoxData>>
    power_sensor,  \* one WattBoxOutletPowerSensor: << >> until created
    amps_sensor,   \* one WattBoxOutletSensor with key "amps": << >> until created
    switch,        \* one WattBoxSwitch: << >> until created
    command        \* the task running a service call of that switch

\* The state of the client's I/O life cycle, and of one energy sensor.
closeVars == <<own_open, ext_closed, close_pc>>
outletVars == <<outlet_last_power, outlet_last_update, outlet_total_energy>>
energyVars == <<last_power, last_update, total_energy, restored, observations,
                outlet_last_power, outlet_last_update, outlet_total_energy>>
parseVars == <<html, outlets, metrics, fetched, main_gets>>
sensorVars == <<coordinator_data, power_sensor, amps_sensor>>
switchVars == <<switch, command>>
entityVars == <<coordinator_data, power_sensor, amps_sensor, switch, command>>

vars == <<pc, op, sent, outcome, result, lock, waiters, session, own_session,
          basic_auth, httpx_client, httpx_made, httpx_open, negotiator,
          digest_confirmed, own_open, ext_closed, close_pc, last_power,
          last_update, total_energy, restored, observations,
          outlet_last_power, outlet_last_update, outlet_total_energy,
          html, outlets, metrics, fetched, main_gets, coordinator_data,
          power_sensor, amps_sensor, switch, command>>

----------------------------------------------------------------------------
(* HTTP exchanges.                                                         *)

\* What a request can end with; status 0 is the exchange raising (connection
\* failure, timeout) instead of returning a response.
Statuses == {200, 204, 304, 302, 401, 500}

\* login: the Location header contains "/login"; digest: the
\* WWW-Authenticate header contains "Digest".
Responses == [status : Statuses, login : BOOLEAN, digest : BOOLEAN]

TransportFailure == [status |-> 0, login |-> FALSE, digest |-> FALSE]

Outcomes == Responses \cup {TransportFailure}

\* The five public operations.
Ops == {"fetch_outlets", "fetch_metrics", "turn_on", "turn_off", "reset"}

Path(o) ==
    CASE o = "turn_on"  -> "/outlet/on"
      [] o = "turn_off" -> "/outlet/off"
      [] o = "reset"    -> "/outlet/reset"
      [] OTHER          -> "/main"

Req(m, p, v, a) == [method |-> m, path |-> p, via |-> v, auth |-> a]

\* The negotiation's requests, as _ensure_logged_in issues them.
BasicProbe     == Req("GET",  "/main",  "aiohttp", "basic")
LoginGet       == Req("GET",  "/login", "aiohttp", "none")
LoginPost      == Req("POST", "/login", "aiohttp", "none")
Recheck        == Req("GET",  "/main",  "aiohttp", "none")
DigestProbe    == Req("GET",  "/main",  "httpx",   "digest")
DigestPost     == Req("POST", "/login", "httpx",   "digest")
DigestRecheck  == Req("GET",  "/main",  "httpx",   "digest")

NegotiationPcs ==
    {"probe", "login_get", "login_post", "recheck",
     "dprobe", "dlogin_post", "drecheck"}

----------------------------------------------------------------------------
(* The conditions the code branches on.                                    *)

\* asyncio.Lock.acquire returns at once only when the lock is free and no
\* task is queued for it; otherwise the caller is queued.
LockAvailableNoLock == TRUE
LockAvailable == lock = 0 /\ waiters = << >>

\* resp.status in (200, 304)
ProbeAccepted(r) == r.status \in {200, 304}

\* "/login" in resp.headers.get("Location", "")
RedirectsToLogin(r) == r.login

\* resp.status == 401
UnauthorizedWrongStatus(r) == r.status = 403
Unauthorized(r) == r.status = 401

\* "Digest" in resp.headers.get("WWW-Authenticate", "")
OffersDigest(r) == r.digest

\* login_resp.status not in (200, 302) raises
LoginPostAccepted(r) == r.status \in {200, 302}

\* resp2.status != 200 raises
RecheckAcceptedLikeProbe(r) == r.status \in {200, 304}
RecheckAccepted(r) == r.status = 200

\* r.status_code in (200, 304)
DigestProbeAccepted(r) == r.status \in {200, 304}

\* r.is_redirect and "/login" in r.headers.get("Location", "")
DigestRedirectsToLogin(r) == r.status = 302 /\ r.login

\* r2.status_code not in (200, 302) raises
DigestPostAcceptedOnly200(r) == r.status = 200
DigestPostAccepted(r) == r.status \in {200, 302}

\* r3.status_code != 200 raises
DigestRecheckAccepted(r) == r.status = 200

\* The request of a public operation, once _ensure_logged_in has returned:
\* through the httpx client when there is one, otherwise through the aiohttp
\* session, with the Basic credential when one is remembered.
OwnRequestBasicFirst(o, hc, ba) ==
    IF ba = "auth"
    THEN Req("GET", Path(o), "aiohttp", "basic")
    ELSE IF hc # 0
         THEN Req("GET", Path(o), "httpx", "digest")
         ELSE Req("GET", Path(o), "aiohttp", "none")
OwnRequest(o, hc, ba) ==
    IF hc # 0
    THEN Req("GET", Path(o), "httpx", "digest")
    ELSE Req("GET", Path(o), "aiohttp", IF ba = "auth" THEN "basic" ELSE "none")

\* aiohttp's raise_for_status raises from 400 on; httpx's for every status
\* that is not 2xx.
AiohttpRaisesServerOnly(status) == status >= 500
AiohttpRaises(status) == status >= 400
HttpxRaises(status) == ~(status \in 200..299)

IsCommand(o) == o \in {"turn_on", "turn_off", "reset"}

\* How the operation's own exchange ends for the caller.
OwnResult(q, o, r) ==
    IF r.status = 0 THEN "TransportError"
    ELSE IF q.via = "httpx"
         THEN IF IsCommand(o)
              THEN IF r.status \notin {200, 302} /\ HttpxRaises(r.status)
                   THEN "HTTPStatusError" ELSE "ok"
              ELSE IF HttpxRaises(r.status) THEN "HTTPStatusError" ELSE "ok"
         ELSE IF AiohttpRaises(r.status) THEN "HTTPStatusError" ELSE "ok"

----------------------------------------------------------------------------
(* The HTML extractor (client.py): parse_outlets_from_html and             *)
(* parse_metrics_from_html.  A page is given by what the code's selectors  *)
(* find in it; a text is the sequence of its characters.                   *)

\* Cap on the outlet blocks (div.grid-grey > div.grid-block) of a page.
MaxBlocks == 3

DigitValue ==
    ("0" :> 0) @@ ("1" :> 1) @@ ("2" :> 2) @@ ("3" :> 3) @@ ("4" :> 4) @@
    ("5" :> 5) @@ ("6" :> 6) @@ ("7" :> 7) @@ ("8" :> 8) @@ ("9" :> 9)

\* text.replace(ch, "")
Replace(text, ch) == SelectSeq(text, LAMBDA c : c # ch)

\* text.strip()
RECURSIVE LStrip(_)
LStrip(text) ==
    IF text # << >> /\ Head(text) = " " THEN LStrip(Tail(text)) ELSE text
RECURSIVE RStrip(_)
RStrip(text) ==
    IF text # << >> /\ text[Len(text)] = " "
    THEN RStrip(SubSeq(text, 1, Len(text) - 1))
    ELSE text
Strip(text) == RStrip(LStrip(text))

IsDigits(text) ==
    /\ text # << >>
    /\ \A i \in DOMAIN text : text[i] \in DOMAIN DigitValue

RECURSIVE Decimal(_)
Decimal(text) ==
    IF text = << >>
    THEN 0
    ELSE 10 * Decimal(SubSeq(text, 1, Len(text) - 1)) + DigitValue[text[Len(text)]]

\* The numeral a text spells: <<value>>, or << >> where Python raises
\* ValueError.  The texts of the model hold no ".", exponent or underscore.
Numeral(text) ==
    IF IsDigits(text)
    THEN <<Decimal(text)>>
    ELSE IF text # << >> /\ Head(text) \in {"-", "+"} /\ IsDigits(Tail(text))
         THEN <<IF Head(text) = "-" THEN 0 - Decimal(Tail(text)) ELSE Decimal(Tail(text))>>
         ELSE << >>

\* int(text) and float(text); both ignore surrounding white space.
ToInt(text) == Numeral(Strip(text))
ToFloat(text) == Numeral(Strip(text))

\* float(text.replace(unit, "").strip()) under try/except ValueError
UnitValue(text, unit) == ToFloat(Strip(Replace(text, unit)))

\* The texts of .grid-index-label > span in the pages considered.
Labels == {<<"1">>, <<"2">>, <<"3">>, <<"0">>, <<"-", "1">>, <<"x">>, << >>}

\* The texts of the <p> elements holding an outlet's watts and amps, and of
\* the lines of the totals cell.
Fragments == {<<"1", "2", "W">>, <<"2", "A">>, <<"0">>, <<"x">>}

\* input[id^='outlet'] with its checked and disabled attributes.
Toggle(checked, disabled) == [checked |-> checked, disabled |-> disabled]
Toggles == {Toggle(c, d) : c, d \in BOOLEAN}

\* One div.grid-block: each element is << >> when the selector finds none.
Block(number_el, name_el, input_el, stat_ps) ==
    [number_el |-> number_el, name_el |-> name_el, input_el |-> input_el,
     stat_ps |-> stat_ps]

\* The <p> lists of a block: none, one, two, or three elements.
StatLists ==
    {<< >>, << <<"1", "2", "W">> >>,
     << <<"1", "2", "W">>, <<"2", "A">>, <<"x">> >>}
        \cup {<<w, a>> : w, a \in Fragments}

\* The blocks considered: complete ones with every label, ones lacking an
\* element, ones with every toggle, ones with every <p> list.
Blocks ==
    {Block(<<l>>, <<"Lamp">>, <<Toggle(FALSE, FALSE)>>, << >>) : l \in Labels}
        \cup {Block(<< >>, <<"Lamp">>, <<Toggle(FALSE, FALSE)>>, << >>),
              Block(<< <<"1">> >>, << >>, <<Toggle(FALSE, FALSE)>>, << >>),
              Block(<< <<"1">> >>, <<"Lamp">>, << >>, << >>),
              Block(<< <<"2">> >>, <<"">>, <<Toggle(FALSE, FALSE)>>, << >>)}
        \cup {Block(<<l>>, <<"Lamp">>, <<t>>, << >>) :
                  l \in {<<"1">>, <<"2">>, <<"3">>}, t \in Toggles}
        \cup {Block(<< <<"1">> >>, <<"Lamp">>, <<Toggle(TRUE, FALSE)>>, ps) :
                  ps \in StatLists}

\* The first td whose text has POWER and CURRENT: << >> when there is none;
\* sibling is whether its parent has a following td, lines the lines of
\* that td's text.
PowerCells ==
    {<< >>, <<[sibling |-> FALSE, lines |-> << <<"1", "2", "W">>, <<"2", "A">> >>]>>,
     <<[sibling |-> TRUE, lines |-> << << >> >>]>>}
        \cup {<<[sibling |-> TRUE, lines |-> <<w, a>>]>> : w, a \in Fragments}

\* The texts of the spans of div.grid-block[style*='background'].
VoltSpans ==
    {<< >>, << <<"1", "2", "0", "V">> >>, << <<"1", "2", "0">> >>,
     << <<"x">>, <<"1", "2", "0", "V">> >>,
     << <<"x", "V">>, <<"1", "2", "0", "V">> >>}

Page(blocks, power_cell, volt_spans) ==
    [blocks |-> blocks, power_cell |-> power_cell, volt_spans |-> volt_spans]

EmptyPage == Page(<< >>, << >>, << >>)

BlockLists == UNION {[1..n -> Blocks] : n \in 0..MaxBlocks}

\* Every list of blocks on a page without totals, and every totals cell and
\* voltage block on a page of at most one outlet.
Pages ==
    {Page(bs, << >>, << >>) : bs \in BlockLists}
        \cup {Page(bs, pw, vs) :
                  bs \in {<< >>, <<Block(<< <<"1">> >>, <<"Lamp">>,
                                         <<Toggle(TRUE, FALSE)>>,
                                         << <<"1", "2", "W">>, <<"2", "A">> >>)>>},
                  pw \in PowerCells, vs \in VoltSpans}

\* The OutletInfo of one block: << >> when the loop continues without one.
OutletOfBlockNameOptional(block) ==
    IF block.number_el = << >> \/ block.input_el = << >>
    THEN << >>
    ELSE LET number == ToInt(block.number_el[1])
             two == Len(block.stat_ps) >= 2
         IN  IF number = << >>
             THEN << >>
             ELSE <<[number |-> number[1],
                     name |-> IF block.name_el = << >> THEN "" ELSE block.name_el[1],
                     is_on |-> block.input_el[1].checked,
                     is_reset_only |-> block.input_el[1].disabled,
                     watts |-> IF two THEN UnitValue(block.stat_ps[1], "W") ELSE << >>,
                     amps |-> IF two THEN UnitValue(block.stat_ps[2], "A") ELSE << >>]>>
OutletOfBlockOneTry(block) ==
    IF block.number_el = << >> \/ block.name_el = << >> \/ block.input_el = << >>
    THEN << >>
    ELSE LET number == ToInt(block.number_el[1])
             two == Len(block.stat_ps) >= 2
             both == /\ two
                     /\ UnitValue(block.stat_ps[1], "W") # << >>
                     /\ UnitValue(block.stat_ps[2], "A") # << >>
         IN  IF number = << >>
             THEN << >>
             ELSE <<[number |-> number[1],
                     name |-> block.name_el[1],
                     is_on |-> block.input_el[1].checked,
                     is_reset_only |-> block.input_el[1].disabled,
                     watts |-> IF both THEN UnitValue(block.stat_ps[1], "W") ELSE << >>,
                     amps |-> IF both THEN UnitValue(block.stat_ps[2], "A") ELSE << >>]>>
OutletOfBlockOnUnlessDisabled(block) ==
    IF block.number_el = << >> \/ block.name_el = << >> \/ block.input_el = << >>
    THEN << >>
    ELSE LET number == ToInt(block.number_el[1])
             two == Len(block.stat_ps) >= 2
         IN  IF number = << >>
             THEN << >>
             ELSE <<[number |-> number[1],
                     name |-> block.name_el[1],
                     is_on |-> block.input_el[1].checked /\ ~block.input_el[1].disabled,
                     is_reset_only |-> block.input_el[1].disabled,
                     watts |-> IF two THEN UnitValue(block.stat_ps[1], "W") ELSE << >>,
                     amps |-> IF two THEN UnitValue(block.stat_ps[2], "A") ELSE << >>]>>
OutletOfBlock(block) ==
    IF block.number_el = << >> \/ block.name_el = << >> \/ block.input_el = << >>
    THEN << >>
    ELSE LET number == ToInt(block.number_el[1])
             two == Len(block.stat_ps) >= 2
         IN  IF number = << >>
             THEN << >>
             ELSE <<[number |-> number[1],
                     name |-> block.name_el[1],
                     is_on |-> block.input_el[1].checked,
                     is_reset_only |-> block.input_el[1].disabled,
                     watts |-> IF two THEN UnitValue(block.stat_ps[1], "W") ELSE << >>,
                     amps |-> IF two THEN UnitValue(block.stat_ps[2], "A") ELSE << >>]>>

\* The for loop: the OutletInfo appended, in document order.
RECURSIVE OutletsOfBlocks(_)
OutletsOfBlocks(blocks) ==
    IF blocks = << >>
    THEN << >>
    ELSE OutletOfBlock(Head(blocks)) \o OutletsOfBlocks(Tail(blocks))

\* One step of the stable sort: o goes behind the elements whose number is
\* not greater.
SortedInsert(sorted, o) ==
    LET k == Cardinality({i \in DOMAIN sorted : sorted[i].number <= o.number})
    IN  SubSeq(sorted, 1, k) \o <<o>> \o SubSeq(sorted, k + 1, Len(sorted))

\* outlets.sort(key=lambda o: o.number)
RECURSIVE SortByNumberKeepsDocumentOrder(_)
SortByNumberKeepsDocumentOrder(list) ==
    IF list = << >>
    THEN << >>
    ELSE SortByNumberKeepsDocumentOrder(SubSeq(list, 1, Len(list) - 1))
             \o <<list[Len(list)]>>
RECURSIVE SortByNumber(_)
SortByNumber(list) ==
    IF list = << >>
    THEN << >>
    ELSE SortedInsert(SortByNumber(SubSeq(list, 1, Len(list) - 1)), list[Len(list)])

parse_outlets_from_html(page) == SortByNumber(OutletsOfBlocks(page.blocks))

parse_metrics_from_html(page) ==
    LET cell == page.power_cell
        two == cell # << >> /\ cell[1].sibling /\ Len(cell[1].lines) >= 2
        ending == SelectSeq(page.volt_spans,
                            LAMBDA txt : txt # << >> /\ txt[Len(txt)] = "V")
    IN  [voltage |-> IF ending # << >> THEN UnitValue(ending[1], "V") ELSE << >>,
         total_watts |-> IF two THEN UnitValue(cell[1].lines[1], "W") ELSE << >>,
         total_amps |-> IF two THEN UnitValue(cell[1].lines[2], "A") ELSE << >>]

\* sum(getattr(o, key) for o in outlets if getattr(o, key) is not None)
RECURSIVE SumPresentStopsAtAbsent(_, _)
SumPresentStopsAtAbsent(list, key) ==
    IF list = << >> \/ Head(list)[key] = << >>
    THEN 0
    ELSE Head(list)[key][1] + SumPresentStopsAtAbsent(Tail(list), key)
RECURSIVE SumPresent(_, _)
SumPresent(list, key) ==
    IF list = << >>
    THEN 0
    ELSE (IF Head(list)[key] = << >> THEN 0 ELSE Head(list)[key][1])
             + SumPresent(Tail(list), key)

\* async_fetch_metrics once the page is loaded: the page's metrics, a total
\* that is missing replaced by the sum over the page's outlets.  round(x, 2)
\* leaves the whole numbers of the model's pages as they are.
MetricsFallbackWhenBothAbsent(page) ==
    LET m == parse_metrics_from_html(page)
        both == m.total_watts = << >> /\ m.total_amps = << >>
        list == parse_outlets_from_html(page)
    IN  [voltage |-> m.voltage,
         total_watts |-> IF both THEN <<SumPresent(list, "watts")>> ELSE m.total_watts,
         total_amps |-> IF both THEN <<SumPresent(list, "amps")>> ELSE m.total_amps]
MetricsWithFallback(page) ==
    LET m == parse_metrics_from_html(page)
        list == parse_outlets_from_html(page)
    IN  [voltage |-> m.voltage,
         total_watts |-> IF m.total_watts = << >>
                         THEN <<SumPresent(list, "watts")>>
                         ELSE m.total_watts,
         total_amps |-> IF m.total_amps = << >>
                        THEN <<SumPresent(list, "amps")>>
                        ELSE m.total_amps]

----------------------------------------------------------------------------
(* State after construction.                                               *)

\* Before either platform is set up: no coordinator data, no entity, no
\* service call.
NoEntities ==
    /\ coordinator_data = << >>
    /\ power_sensor = << >>
    /\ amps_sensor = << >>
    /\ switch = << >>
    /\ command = [pc |-> "idle", service |-> "none", found |-> << >>,
                  raised |-> FALSE]

ClientInit ==
    /\ pc = [c \in Callers |-> "idle"]
    /\ op = [c \in Callers |-> "none"]
    /\ sent = [c \in Callers |-> << >>]
    /\ outcome = [c \in Callers |-> "none"]
    /\ result = [c \in Callers |-> "none"]
    /\ lock = 0
    /\ waiters = << >>
    /\ session \in {"none", "ext"}
    /\ own_session = (session = "none")
    /\ basic_auth = "unset"
    /\ httpx_client = 0
    /\ httpx_made = 0
    /\ httpx_open = {}
    /\ negotiator = "Unauthenticated"
    /\ digest_confirmed = FALSE
    /\ own_open = 0
    /\ ext_closed = FALSE
    /\ close_pc = "idle"

\* A client just constructed; no energy sensor is looked at.
Init ==
    /\ ClientInit
    /\ last_power = << >>
    /\ last_update = << >>
    /\ total_energy = 0
    /\ restored = FALSE
    /\ observations = 0
    /\ outlet_last_power = << >>
    /\ outlet_last_update = << >>
    /\ outlet_total_energy = 0
    /\ html = EmptyPage
    /\ outlets = << >>
    /\ metrics = << >>
    /\ fetched = << >>
    /\ main_gets = 0
    /\ NoEntities

----------------------------------------------------------------------------
(* Steps of _ensure_logged_in.                                             *)

\* Entering the `async with self._lock` body: _get_session, then the Basic
\* probe of /main is issued.
Enter(c) ==
    /\ lock' = c
    /\ session' = IF session = "none" THEN "own" ELSE session
    /\ own_session' = IF session = "none" THEN TRUE ELSE own_session
    /\ own_open' = IF session = "none" THEN own_open + 1 ELSE own_open
    /\ pc' = [pc EXCEPT ![c] = "probe"]
    /\ sent' = [sent EXCEPT ![c] = << BasicProbe >>]

\* A task calls one of the public operations, which all start with
\* `await self._ensure_logged_in()`.
Call(c) ==
    /\ pc[c] = "idle"
    /\ IF LockAvailable
       THEN Enter(c) /\ UNCHANGED waiters
       ELSE /\ pc' = [pc EXCEPT ![c] = "wait"]
            /\ waiters' = Append(waiters, c)
            /\ UNCHANGED <<sent, lock, session, own_session, own_open>>
    /\ UNCHANGED <<op, outcome, result, basic_auth, httpx_client, httpx_made,
                   httpx_open, negotiator, digest_confirmed, ext_closed,
                   close_pc, energyVars, parseVars, entityVars>>

\* The lock was released and this task is the first one queued for it.
Acquire(c) ==
    /\ pc[c] = "wait"
    /\ lock = 0
    /\ waiters # << >> /\ Head(waiters) = c
    /\ waiters' = Tail(waiters)
    /\ Enter(c)
    /\ UNCHANGED <<op, outcome, result, basic_auth, httpx_client, httpx_made,
                   httpx_open, negotiator, digest_confirmed, ext_closed,
                   close_pc, energyVars, parseVars, entityVars>>

\* The negotiation goes on with its next request.
Continue(c, next, q) ==
    /\ pc' = [pc EXCEPT ![c] = next]
    /\ sent' = [sent EXCEPT ![c] = Append(@, q)]
    /\ UNCHANGED <<op, outcome, result, lock, waiters, session, own_session,
                   negotiator, digest_confirmed, closeVars, energyVars, parseVars, entityVars>>

\* _ensure_logged_in returns (the lock is released on the way out) and the
\* operation issues its own request; ba is the value _basic_auth has then.
Return(c, verdict, ba) ==
    /\ basic_auth' = ba
    /\ lock' = 0
    /\ outcome' = [outcome EXCEPT ![c] = verdict]
    /\ negotiator' = verdict
    /\ digest_confirmed' = (digest_confirmed \/ verdict = "DigestConfirmed")
    /\ pc' = [pc EXCEPT ![c] = "request"]
    /\ \E o \in Ops :
          /\ op' = [op EXCEPT ![c] = o]
          /\ sent' = [sent EXCEPT ![c] = Append(@, OwnRequest(o, httpx_client, ba))]
    /\ UNCHANGED <<result, waiters, session, own_session, httpx_client,
                   httpx_made, httpx_open, closeVars, energyVars, parseVars, entityVars>>

\* _ensure_logged_in raises exc (the lock is released on the way out) and the
\* exception leaves the operation.
RaiseRetry(c, exc, verdict) ==
    /\ pc' = [pc EXCEPT ![c] = "probe"]
    /\ sent' = [sent EXCEPT ![c] = Append(@, BasicProbe)]
    /\ UNCHANGED <<lock, outcome, negotiator, result, op, waiters, session,
                   own_session, digest_confirmed, closeVars, energyVars, parseVars, entityVars>>
RaiseKeepsLock(c, exc, verdict) ==
    /\ outcome' = [outcome EXCEPT ![c] = verdict]
    /\ negotiator' = IF verdict = "Aborted" THEN negotiator ELSE verdict
    /\ result' = [result EXCEPT ![c] = exc]
    /\ pc' = [pc EXCEPT ![c] = "done"]
    /\ UNCHANGED <<lock, op, sent, waiters, session, own_session,
                   digest_confirmed, closeVars, energyVars, parseVars, entityVars>>
Raise(c, exc, verdict) ==
    /\ lock' = 0
    /\ outcome' = [outcome EXCEPT ![c] = verdict]
    /\ negotiator' = IF verdict = "Aborted" THEN negotiator ELSE verdict
    /\ result' = [result EXCEPT ![c] = exc]
    /\ pc' = [pc EXCEPT ![c] = "done"]
    /\ UNCHANGED <<op, sent, waiters, session, own_session, digest_confirmed,
                   closeVars, energyVars, parseVars, entityVars>>

\* The answer to the Basic probe of /main.
ProbeResp(c, r) ==
    /\ pc[c] = "probe"
    /\ IF r.status = 0
       THEN Raise(c, "TransportError", "Aborted")
            /\ UNCHANGED <<basic_auth, httpx_client, httpx_made, httpx_open>>
       ELSE IF ProbeAccepted(r)
       THEN Return(c, "BasicConfirmed", "auth")
       ELSE IF RedirectsToLogin(r)
       THEN Continue(c, "login_get", LoginGet)
            /\ UNCHANGED <<basic_auth, httpx_client, httpx_made, httpx_open>>
       ELSE IF Unauthorized(r)
       THEN IF OffersDigest(r)
            THEN /\ httpx_made < MaxHttpx
                 /\ httpx_made' = httpx_made + 1
                 /\ httpx_client' = httpx_made + 1
                 /\ httpx_open' = httpx_open \cup {httpx_made + 1}
                 /\ Continue(c, "dprobe", DigestProbe)
                 /\ UNCHANGED basic_auth
            ELSE Raise(c, "RuntimeError", "Failed")
                 /\ UNCHANGED <<basic_auth, httpx_client, httpx_made, httpx_open>>
       ELSE Return(c, "BasicAssumed", "auth")

\* The answer to GET /login: only its cookies matter.
LoginGetResp(c, r) ==
    /\ pc[c] = "login_get"
    /\ IF r.status = 0
       THEN Raise(c, "TransportError", "Aborted")
       ELSE Continue(c, "login_post", LoginPost)
    /\ UNCHANGED <<basic_auth, httpx_client, httpx_made, httpx_open>>

\* The answer to POST /login; bodyRead is whether reading the body of a
\* refused login, for the error message, succeeds.
LoginPostResp(c, r, bodyRead) ==
    /\ pc[c] = "login_post"
    /\ IF r.status = 0
       THEN Raise(c, "TransportError", "Aborted")
       ELSE IF ~LoginPostAccepted(r)
       THEN IF bodyRead
            THEN Raise(c, "RuntimeError", "Failed")
            ELSE Raise(c, "TransportError", "Aborted")
       ELSE Continue(c, "recheck", Recheck)
    /\ UNCHANGED <<basic_auth, httpx_client, httpx_made, httpx_open>>

\* The answer to the re-check of /main after the form login.
RecheckResp(c, r) ==
    /\ pc[c] = "recheck"
    /\ IF r.status = 0
       THEN Raise(c, "TransportError", "Aborted") /\ UNCHANGED basic_auth
       ELSE IF ~RecheckAccepted(r)
       THEN Raise(c, "RuntimeError", "Failed") /\ UNCHANGED basic_auth
       ELSE Return(c, "SessionConfirmed", "none")
    /\ UNCHANGED <<httpx_client, httpx_made, httpx_open>>

\* The answer to the Digest probe of /main.
DigestProbeResp(c, r) ==
    /\ pc[c] = "dprobe"
    /\ IF r.status = 0
       THEN Raise(c, "TransportError", "Aborted") /\ UNCHANGED basic_auth
       ELSE IF DigestProbeAccepted(r)
       THEN Return(c, "DigestConfirmed", "none")
       ELSE IF DigestRedirectsToLogin(r)
       THEN Continue(c, "dlogin_post", DigestPost) /\ UNCHANGED basic_auth
       ELSE Raise(c, "RuntimeError", "Failed") /\ UNCHANGED basic_auth
    /\ UNCHANGED <<httpx_client, httpx_made, httpx_open>>

\* The answer to POST /login through the httpx client.
DigestPostResp(c, r) ==
    /\ pc[c] = "dlogin_post"
    /\ IF r.status = 0
       THEN Raise(c, "TransportError", "Aborted")
       ELSE IF ~DigestPostAccepted(r)
       THEN Raise(c, "RuntimeError", "Failed")
       ELSE Continue(c, "drecheck", DigestRecheck)
    /\ UNCHANGED <<basic_auth, httpx_client, httpx_made, httpx_open>>

\* The answer to the re-check of /main through the httpx client; on success
\* _basic_auth is left as it was.
DigestRecheckResp(c, r) ==
    /\ pc[c] = "drecheck"
    /\ IF r.status = 0
       THEN Raise(c, "TransportError", "Aborted") /\ UNCHANGED basic_auth
       ELSE IF ~DigestRecheckAccepted(r)
       THEN Raise(c, "RuntimeError", "Failed") /\ UNCHANGED basic_auth
       ELSE Return(c, "DigestSessionConfirmed", basic_auth)
    /\ UNCHANGED <<httpx_client, httpx_made, httpx_open>>

----------------------------------------------------------------------------
(* The operation's own exchange, and its end.                              *)

\* The answer to the operation's own request: the operation returns or raises,
\* and the caller is left with the result of the operation it called.
OwnResp(c, r) ==
    /\ pc[c] = "request"
    /\ result' = [result EXCEPT ![c] = OwnResult(sent[c][Len(sent[c])], op[c], r)]
    /\ pc' = [pc EXCEPT ![c] = "done"]
    /\ op' = op
    /\ sent' = [sent EXCEPT ![c] = << >>]
    /\ outcome' = [outcome EXCEPT ![c] = "none"]
    /\ UNCHANGED <<lock, waiters, session, own_session, basic_auth,
                   httpx_client, httpx_made, httpx_open, negotiator,
                   digest_confirmed, closeVars, energyVars, parseVars, entityVars>>

\* The caller has its result (or exception); its task may call again.
Done(c) ==
    /\ pc[c] = "done"
    /\ pc' = [pc EXCEPT ![c] = "idle"]
    /\ op' = [op EXCEPT ![c] = "none"]
    /\ sent' = [sent EXCEPT ![c] = << >>]
    /\ outcome' = [outcome EXCEPT ![c] = "none"]
    /\ result' = [result EXCEPT ![c] = "none"]
    /\ UNCHANGED <<lock, waiters, session, own_session, basic_auth,
                   httpx_client, httpx_made, httpx_open, negotiator,
                   digest_confirmed, closeVars, energyVars, parseVars, entityVars>>

Next ==
    \E c \in Callers :
        \/ Call(c)
        \/ Acquire(c)
        \/ \E r \in Outcomes : ProbeResp(c, r)
        \/ \E r \in Outcomes : LoginGetResp(c, r)
        \/ \E r \in Outcomes, bodyRead \in BOOLEAN : LoginPostResp(c, r, bodyRead)
        \/ \E r \in Outcomes : RecheckResp(c, r)
        \/ \E r \in Outcomes : DigestProbeResp(c, r)
        \/ \E r \in Outcomes : DigestPostResp(c, r)
        \/ \E r \in Outcomes : DigestRecheckResp(c, r)
        \/ \E r \in Outcomes : OwnResp(c, r)
        \/ Done(c)

Spec == Init /\ [][Next]_vars

\* Every request a caller is suspended on is answered (with a response or a
\* transport failure), and the event loop resumes the first task queued for
\* the lock once the lock is free.
Responds(c) ==
    \/ \E r \in Outcomes : ProbeResp(c, r)
    \/ \E r \in Outcomes : LoginGetResp(c, r)
    \/ \E r \in Outcomes, bodyRead \in BOOLEAN : LoginPostResp(c, r, bodyRead)
    \/ \E r \in Outcomes : RecheckResp(c, r)
    \/ \E r \in Outcomes : DigestProbeResp(c, r)
    \/ \E r \in Outcomes : DigestPostResp(c, r)
    \/ \E r \in Outcomes : DigestRecheckResp(c, r)
    \/ \E r \in Outcomes : OwnResp(c, r)

Fairness == \A c \in Callers : WF_vars(Acquire(c)) /\ WF_vars(Responds(c))

\* A client constructed without a session of the caller's.
InitFair == Init /\ session = "none"

SpecFair == InitFair /\ [][Next]_vars /\ Fairness

----------------------------------------------------------------------------
(* async_close, run by one task while the callers go on.                   *)

\* self._own_session and self._session is not None
ClosesSessionAlways == session # "none"
ClosesSession == own_session /\ session # "none"

\* `if self._httpx_client is not None: await self._httpx_client.aclose()`:
\* the client held now is closed and the task is suspended in aclose, or
\* there is none and async_close returns.
CloseHttpx ==
    IF httpx_client # 0
    THEN /\ httpx_open' = httpx_open \ {httpx_client}
         /\ close_pc' = "httpx"
    ELSE /\ httpx_open' = httpx_open
         /\ close_pc' = "idle"

\* async_close is called: it closes the session when the client owns it
\* (suspending in session.close()), otherwise goes on to the httpx client.
CloseBegin ==
    /\ close_pc = "idle"
    /\ IF ClosesSession
       THEN /\ close_pc' = "session"
            /\ own_open' = IF session = "own" THEN own_open - 1 ELSE own_open
            /\ ext_closed' = (ext_closed \/ session = "ext")
            /\ UNCHANGED httpx_open
       ELSE /\ CloseHttpx
            /\ UNCHANGED <<own_open, ext_closed>>
    /\ UNCHANGED <<pc, op, sent, outcome, result, lock, waiters, session,
                   own_session, basic_auth, httpx_client, httpx_made,
                   negotiator, digest_confirmed, energyVars, parseVars, entityVars>>

\* session.close() has returned: `self._session = None`, then the httpx client.
CloseSessionDone ==
    /\ close_pc = "session"
    /\ session' = "none"
    /\ CloseHttpx
    /\ UNCHANGED <<pc, op, sent, outcome, result, lock, waiters, own_session,
                   basic_auth, httpx_client, httpx_made, negotiator,
                   digest_confirmed, own_open, ext_closed, energyVars, parseVars, entityVars>>

\* aclose() has returned: `self._httpx_client = None`, and async_close returns.
CloseHttpxDone ==
    /\ close_pc = "httpx"
    /\ httpx_client' = 0
    /\ close_pc' = "idle"
    /\ UNCHANGED <<pc, op, sent, outcome, result, lock, waiters, session,
                   own_session, basic_auth, httpx_made, httpx_open, negotiator,
                   digest_confirmed, own_open, ext_closed, energyVars, parseVars, entityVars>>

\* An operation is called while no other one is in flight.
CallAlone(c) ==
    /\ \A d \in Callers \ {c} : pc[d] = "idle"
    /\ Call(c)

\* Operations called one after the other, by any of the callers, with
\* async_close running concurrently with them.
NextClose ==
    \/ \E c \in Callers :
          \/ CallAlone(c)
          \/ \E r \in Outcomes : ProbeResp(c, r)
          \/ \E r \in Outcomes : LoginGetResp(c, r)
          \/ \E r \in Outcomes, bodyRead \in BOOLEAN : LoginPostResp(c, r, bodyRead)
          \/ \E r \in Outcomes : RecheckResp(c, r)
          \/ \E r \in Outcomes : DigestProbeResp(c, r)
          \/ \E r \in Outcomes : DigestPostResp(c, r)
          \/ \E r \in Outcomes : DigestRecheckResp(c, r)
          \/ \E r \in Outcomes : OwnResp(c, r)
          \/ Done(c)
    \/ CloseBegin
    \/ CloseSessionDone
    \/ CloseHttpxDone

SpecClose == Init /\ [][NextClose]_vars

----------------------------------------------------------------------------
(* The energy sensor (sensor.py): WattBoxEnergySensor integrates the power *)
(* samples of the coordinator's refreshes; WattBoxOutletEnergySensor has   *)
(* the same _handle_coordinator_update, fed with one outlet's watts.       *)
(* Power is in watts, time in hours, energy in units of 1/UnitsPerKwh kWh  *)
(* so that the code's divisions by 2.0 and by 1000.0 are exact.            *)

clientVars == <<pc, op, sent, outcome, result, lock, waiters, session,
                own_session, basic_auth, httpx_client, httpx_made, httpx_open,
                negotiator, digest_confirmed, own_open, ext_closed, close_pc>>

\* MAX_TIME_GAP_HOURS = 24.0
MAX_TIME_GAP_HOURS == 24

\* avg_power = (power + last_power) / 2.0; energy_kwh = ... / 1000.0
UnitsPerKwh == 2000

\* The watts a refresh can carry: float(text) of the page's fragment, of
\* either sign; << >> is None (no value).
Samples == {-50, 0, 100, 200}
OptSamples == {<< >>} \cup {<<p>> : p \in Samples}

\* The values dt_util.utcnow() returns, in hours; the clock may go back.
Hours == {0, 1, 6, 30, 31, 55}

\* The persisted states float(last_state.state) can yield.
RestoredEnergies == {0, 4000}

\* time_diff_hours = (now - self._last_update).total_seconds() / 3600.0
TimeDiffHours(now, last) == now - last

\* energy_kwh = (power * MAX_TIME_GAP_HOURS) / 1000.0
CappedEnergyHalfGap(power) == (power * 12 * UnitsPerKwh) \div 1000
CappedEnergy(power) == (power * MAX_TIME_GAP_HOURS * UnitsPerKwh) \div 1000

\* avg_power = (power + last_power) / 2.0;
\* energy_kwh = (avg_power * time_diff_hours) / 1000.0
TrapezoidEnergyDifference(power, lp, dt) == ((power - lp) * dt * UnitsPerKwh) \div 2000
TrapezoidEnergy(power, lp, dt) == ((power + lp) * dt * UnitsPerKwh) \div 2000

\* What _handle_coordinator_update adds to _total_energy for a sample.
EnergyAddedWithoutPriorTime(lp, lu, power, now) ==
    IF lp # << >>
    THEN IF lu = << >>
         THEN CappedEnergy(power)
         ELSE LET dt == TimeDiffHours(now, lu[1])
              IN  IF dt < 0 THEN 0
                  ELSE IF dt > MAX_TIME_GAP_HOURS THEN CappedEnergy(power)
                  ELSE IF dt > 0 THEN TrapezoidEnergy(power, lp[1], dt)
                  ELSE 0
    ELSE 0
EnergyAddedCapAtBoundary(lp, lu, power, now) ==
    IF lp # << >> /\ lu # << >>
    THEN LET dt == TimeDiffHours(now, lu[1])
         IN  IF dt < 0 THEN 0
             ELSE IF dt >= MAX_TIME_GAP_HOURS THEN CappedEnergy(power)
             ELSE IF dt > 0 THEN TrapezoidEnergy(power, lp[1], dt)
             ELSE 0
    ELSE 0
EnergyAdded(lp, lu, power, now) ==
    IF lp # << >> /\ lu # << >>
    THEN LET dt == TimeDiffHours(now, lu[1])
         IN  IF dt < 0 THEN 0
             ELSE IF dt > MAX_TIME_GAP_HOURS THEN CappedEnergy(power)
             ELSE IF dt > 0 THEN TrapezoidEnergy(power, lp[1], dt)
             ELSE 0
    ELSE 0

\* A sensor just constructed with initial_power, next to an idle client.
InitEnergy ==
    /\ ClientInit
    /\ session = "none"
    /\ last_power \in OptSamples
    /\ last_update = << >>
    /\ total_energy = 0
    /\ restored = FALSE
    /\ observations = 0
    /\ outlet_last_power = << >>
    /\ outlet_last_update = << >>
    /\ outlet_total_energy = 0
    /\ html = EmptyPage
    /\ outlets = << >>
    /\ metrics = << >>
    /\ fetched = << >>
    /\ main_gets = 0
    /\ NoEntities

\* _handle_coordinator_update with the refresh's power, at time now.
ObserveKeepsLastOnRegression(power, now) ==
    /\ observations < MaxObservations
    /\ observations' = observations + 1
    /\ IF power = << >>
       THEN UNCHANGED <<last_power, last_update, total_energy>>
       ELSE /\ total_energy' =
                   total_energy + EnergyAdded(last_power, last_update, power[1], now)
            /\ IF last_update # << >> /\ now < last_update[1]
               THEN UNCHANGED <<last_power, last_update>>
               ELSE /\ last_power' = power
                    /\ last_update' = <<now>>
    /\ UNCHANGED <<restored, clientVars, parseVars, entityVars>>
Observe(power, now) ==
    /\ observations < MaxObservations
    /\ observations' = observations + 1
    /\ IF power = << >>
       THEN UNCHANGED <<last_power, last_update, total_energy>>
       ELSE /\ total_energy' =
                   total_energy + EnergyAdded(last_power, last_update, power[1], now)
            /\ last_power' = power
            /\ last_update' = <<now>>
    /\ UNCHANGED <<restored, clientVars, parseVars, entityVars>>

\* async_added_to_hass, once async_get_last_state has returned: stored is
\* whether a usable state was persisted, e its value, t its last_updated,
\* lp its last_power attribute (<< >> when absent or not a number).
Restore(stored, e, t, lp) ==
    /\ ~restored
    /\ restored' = TRUE
    /\ IF stored
       THEN /\ total_energy' = e
            /\ last_update' = <<t>>
            /\ last_power' = IF lp # << >> THEN lp ELSE last_power
       ELSE UNCHANGED <<last_power, last_update, total_energy>>
    /\ UNCHANGED <<observations, clientVars, parseVars, entityVars>>

\* The whole-device sensor alone: the outlet's sensor is not there.
NextEnergy ==
    \/ \E power \in OptSamples, now \in Hours :
          Observe(power, now) /\ UNCHANGED outletVars
    \/ \E stored \in BOOLEAN, e \in RestoredEnergies, t \in Hours, lp \in OptSamples :
          Restore(stored, e, t, lp) /\ UNCHANGED outletVars

SpecEnergy == InitEnergy /\ [][NextEnergy]_vars

\* WattBoxOutletEnergySensor: its three fields as one value.
OutletState ==
    [last_power |-> outlet_last_power,
     last_update |-> outlet_last_update,
     total_energy |-> outlet_total_energy]

\* WattBoxOutletEnergySensor._handle_coordinator_update on the fields s;
\* power is the watts of the outlet with the sensor's number in the refreshed
\* list, << >> when the outlet is not in the list or has no watts.
OutletUpdatedNilAsZero(s, power, now) ==
    LET watts == IF power = << >> THEN 0 ELSE power[1]
    IN  [last_power |-> <<watts>>,
         last_update |-> <<now>>,
         total_energy |-> s.total_energy +
                             EnergyAdded(s.last_power, s.last_update, watts, now)]
OutletUpdated(s, power, now) ==
    IF power = << >>
    THEN s
    ELSE [last_power |-> power,
          last_update |-> <<now>>,
          total_energy |-> s.total_energy +
                              EnergyAdded(s.last_power, s.last_update, power[1], now)]

\* The restoring part of WattBoxOutletEnergySensor.async_added_to_hass.
OutletRestored(s, stored, e, t, lp) ==
    IF stored
    THEN [last_power |-> IF lp # << >> THEN lp ELSE s.last_power,
          last_update |-> <<t>>,
          total_energy |-> e]
    ELSE s

\* Assignment of the outlet sensor's fields.
SetOutlet(s) ==
    /\ outlet_last_power' = s.last_power
    /\ outlet_last_update' = s.last_update
    /\ outlet_total_energy' = s.total_energy

\* The coordinator notifies both sensors of one refresh, at time now.
ObserveBoth(power, now) ==
    /\ observations < MaxPairObservations
    /\ Observe(power, now)
    /\ SetOutlet(OutletUpdated(OutletState, power, now))

\* Both sensors are added and restore the same persisted state; the outlet
\* sensor's async_added_to_hass ends with a call of its own
\* _handle_coordinator_update, on the coordinator's current data (power) at
\* the current time (now).
RestoreBoth(stored, e, t, lp, power, now) ==
    /\ Restore(stored, e, t, lp)
    /\ SetOutlet(OutletUpdated(OutletRestored(OutletState, stored, e, t, lp),
                               power, now))

\* Both sensors constructed with the same initial_power.
InitPair ==
    /\ ClientInit
    /\ session = "none"
    /\ last_power \in OptSamples
    /\ last_update = << >>
    /\ total_energy = 0
    /\ restored = FALSE
    /\ observations = 0
    /\ outlet_last_power = last_power
    /\ outlet_last_update = << >>
    /\ outlet_total_energy = 0
    /\ html = EmptyPage
    /\ outlets = << >>
    /\ metrics = << >>
    /\ fetched = << >>
    /\ main_gets = 0
    /\ NoEntities

NextPair ==
    \/ \E power \in OptSamples, now \in Hours : ObserveBoth(power, now)
    \/ \E stored \in BOOLEAN, e \in RestoredEnergies, t \in Hours,
            lp \in OptSamples, power \in OptSamples, now \in Hours :
          RestoreBoth(stored, e, t, lp, power, now)

SpecPair == InitPair /\ [][NextPair]_vars

----------------------------------------------------------------------------
(* The extractors applied to a status page.                                *)

\* A page has been loaded by one GET of /main; nothing is parsed yet.
InitParse ==
    /\ ClientInit
    /\ session = "none"
    /\ last_power = << >>
    /\ last_update = << >>
    /\ total_energy = 0
    /\ restored = FALSE
    /\ observations = 0
    /\ outlet_last_power = << >>
    /\ outlet_last_update = << >>
    /\ outlet_total_energy = 0
    /\ html \in Pages
    /\ outlets = << >>
    /\ metrics = << >>
    /\ fetched = << >>
    /\ main_gets = 1
    /\ NoEntities

ParseOutletsFromHtml ==
    /\ outlets = << >>
    /\ outlets' = <<parse_outlets_from_html(html)>>
    /\ UNCHANGED <<html, metrics, fetched, main_gets, clientVars, energyVars,
                 entityVars>>

ParseMetricsFromHtml ==
    /\ metrics = << >>
    /\ metrics' = <<parse_metrics_from_html(html)>>
    /\ UNCHANGED <<html, outlets, fetched, main_gets, clientVars, energyVars,
                 entityVars>>

\* async_fetch_metrics from the point where the page is loaded to its return.
FetchMetricsReturn ==
    /\ fetched = << >>
    /\ fetched' = <<MetricsWithFallback(html)>>
    /\ UNCHANGED <<html, outlets, metrics, main_gets, clientVars, energyVars,
                 entityVars>>

NextParse ==
    \/ ParseOutletsFromHtml
    \/ ParseMetricsFromHtml
    \/ FetchMetricsReturn

SpecParse == InitParse /\ [][NextParse]_vars

----------------------------------------------------------------------------
(* The entities of one outlet: its power sensor and its current sensor.    *)

\* Cap on the outlets of the pages the device serves while the entities are
\* followed.
MaxEntityBlocks == 2

\* The outlets of those pages: numbered 1 or 2; on, off or reset-only;
\* showing no readings, "12W" and "2A", or "0" and "0".
EntityBlocks ==
    {Block(<<l>>, <<"Lamp">>, <<t>>, ps) :
         l \in {<<"1">>, <<"2">>},
         t \in {Toggle(TRUE, FALSE), Toggle(FALSE, FALSE), Toggle(FALSE, TRUE)},
         ps \in {<< >>,
                 << <<"1", "2", "W">>, <<"2", "A">> >>,
                 << <<"0">>, <<"0">> >>}}

EntityPages ==
    {Page(bs, << >>, << >>) :
         bs \in UNION {[1..n -> EntityBlocks] : n \in 0..MaxEntityBlocks}}

\* WattBoxData as the outlet sensors read it: they use .outlets only.
WattBoxData(page) == [outlets |-> parse_outlets_from_html(page)]

\* for outlet in outlets: if outlet.number == number: ... return
\* << >> when the loop ends without a match.
FirstWithNumber(list, number) ==
    LET idx == {i \in DOMAIN list : list[i].number = number}
    IN  IF idx = {}
        THEN << >>
        ELSE <<list[CHOOSE i \in idx : \A j \in idx : i <= j]>>

\* WattBoxOutletPowerSensor._handle_coordinator_update
PowerSensorUpdated(sensor, data) ==
    IF data = << >>
    THEN sensor
    ELSE LET found == FirstWithNumber(data[1].outlets, sensor.outlet_number)
         IN  IF found = << >>
             THEN sensor
             ELSE [sensor EXCEPT
                       !.state = IF found[1].watts # << >>
                                 THEN found[1].watts
                                 ELSE <<0>>]

\* WattBoxOutletSensor._handle_coordinator_update
OutletSensorUpdated(sensor, data) ==
    IF data = << >>
    THEN sensor
    ELSE LET found == FirstWithNumber(data[1].outlets, sensor.outlet_number)
         IN  IF found = << >>
             THEN sensor
             ELSE LET value == found[1][sensor.key]
                  IN  [sensor EXCEPT
                           !.state = IF value # << >> THEN value ELSE <<0>>]

\* async_setup_platform for the k-th outlet of the first refresh, followed
\* by the async_added_to_hass of the sensors it created.
AsyncSetupPlatform(page, k) ==
    /\ coordinator_data = << >>
    /\ LET data == <<WattBoxData(page)>>
           outlet == data[1].outlets[k]
           initial_watts == IF outlet.watts # << >> THEN outlet.watts ELSE <<0>>
           initial_amps == IF outlet.amps # << >> THEN outlet.amps ELSE <<0>>
       IN  /\ k \in DOMAIN data[1].outlets
           /\ coordinator_data' = data
           /\ power_sensor' =
                  IF ~outlet.is_reset_only \/ outlet.watts # << >>
                  THEN <<PowerSensorUpdated(
                             [outlet_number |-> outlet.number,
                              state |-> initial_watts], data)>>
                  ELSE << >>
           /\ amps_sensor' =
                  <<OutletSensorUpdated(
                        [outlet_number |-> outlet.number, key |-> "amps",
                         state |-> initial_amps], data)>>
    /\ UNCHANGED <<switchVars, clientVars, energyVars, parseVars>>

\* A successful coordinator refresh: the new data is stored and every
\* listener is called.  (After a failed refresh the listeners run on the
\* data kept, which changes nothing here.)
CoordinatorRefresh(page) ==
    /\ coordinator_data # << >>
    /\ coordinator_data' = <<WattBoxData(page)>>
    /\ power_sensor' =
           IF power_sensor = << >>
           THEN << >>
           ELSE <<PowerSensorUpdated(power_sensor[1], coordinator_data')>>
    /\ amps_sensor' =
           IF amps_sensor = << >>
           THEN << >>
           ELSE <<OutletSensorUpdated(amps_sensor[1], coordinator_data')>>
    /\ UNCHANGED <<switchVars, clientVars, energyVars, parseVars>>

\* A client just constructed, neither platform set up.
InitEntities ==
    /\ ClientInit
    /\ session = "none"
    /\ last_power = << >>
    /\ last_update = << >>
    /\ total_energy = 0
    /\ restored = FALSE
    /\ observations = 0
    /\ outlet_last_power = << >>
    /\ outlet_last_update = << >>
    /\ outlet_total_energy = 0
    /\ html = EmptyPage
    /\ outlets = << >>
    /\ metrics = << >>
    /\ fetched = << >>
    /\ main_gets = 0
    /\ NoEntities

NextSensor ==
    \/ \E page \in EntityPages : \E k \in 1..MaxEntityBlocks :
           AsyncSetupPlatform(page, k)
    \/ \E page \in EntityPages : CoordinatorRefresh(page)

SpecSensor == InitEntities /\ [][NextSensor]_vars

----------------------------------------------------------------------------
(* The switch of one outlet.                                                *)

\* What async_fetch_outlets gives a caller: << >> when it raises, else
\* <<the list>>.
Fetches == {<< >>} \cup {<<parse_outlets_from_html(page)>> : page \in EntityPages}

\* WattBoxSwitch.__init__
NewSwitch(outlet) ==
    [number |-> outlet.number, is_on |-> outlet.is_on,
     is_reset_only |-> outlet.is_reset_only, watts |-> outlet.watts,
     amps |-> outlet.amps, available |-> TRUE]

\* WattBoxSwitch.async_update, given what its fetch gave.
SwitchUpdated(sw, fetch) ==
    IF fetch = << >>
    THEN [sw EXCEPT !.available = FALSE]
    ELSE LET found == FirstWithNumber(fetch[1], sw.number)
         IN  IF found = << >>
             THEN [sw EXCEPT !.available = FALSE]
             ELSE [sw EXCEPT !.is_on = found[1].is_on,
                             !.is_reset_only = found[1].is_reset_only,
                             !.watts = found[1].watts,
                             !.amps = found[1].amps,
                             !.available = TRUE]

\* async_setup_platform for the k-th outlet of its fetch: no switch for a
\* reset-only outlet; update_before_add=True runs async_update, with a
\* fetch of its own, before the entity is added.
SwitchSetupPlatform(page, k, fetch) ==
    /\ switch = << >>
    /\ LET list == parse_outlets_from_html(page)
       IN  /\ k \in DOMAIN list
           /\ ~list[k].is_reset_only
           /\ switch' = <<SwitchUpdated(NewSwitch(list[k]), fetch)>>
    /\ UNCHANGED <<command, sensorVars, clientVars, energyVars, parseVars>>

\* The entity platform polls the switch.
PollUpdate(fetch) ==
    /\ switch # << >>
    /\ switch' = <<SwitchUpdated(switch[1], fetch)>>
    /\ UNCHANGED <<command, sensorVars, clientVars, energyVars, parseVars>>

\* async_turn_on, async_turn_off or async_reset up to its first await: the
\* client's command is in flight.
CallService(service) ==
    /\ switch # << >>
    /\ command.pc = "idle"
    /\ command' = [pc |-> "sent", service |-> service, found |-> << >>,
                   raised |-> FALSE]
    /\ UNCHANGED <<switch, sensorVars, clientVars, energyVars, parseVars>>

\* The client's command raises: except Exception logs and re-raises.
CommandRaisesAfterOptimisticUpdate ==
    /\ command.pc = "sent"
    /\ command' = [command EXCEPT !.pc = "idle", !.raised = TRUE]
    /\ switch' = IF command.service = "reset"
                 THEN switch
                 ELSE <<[switch[1] EXCEPT !.is_on = (command.service = "turn_on")]>>
    /\ UNCHANGED <<sensorVars, clientVars, energyVars, parseVars>>
CommandRaises ==
    /\ command.pc = "sent"
    /\ command' = [command EXCEPT !.pc = "idle", !.raised = TRUE]
    /\ UNCHANGED <<switch, sensorVars, clientVars, energyVars, parseVars>>

\* The client's command returns: turn-on and turn-off set _is_on and write
\* the state; then async_update is awaited.
CommandReturns ==
    /\ command.pc = "sent"
    /\ command' = [command EXCEPT !.pc = "refresh"]
    /\ switch' = IF command.service = "reset"
                 THEN switch
                 ELSE <<[switch[1] EXCEPT !.is_on = (command.service = "turn_on")]>>
    /\ UNCHANGED <<sensorVars, clientVars, energyVars, parseVars>>

\* The service call's own async_update completes and the call returns;
\* found is the outlet its loop stopped at.
CommandRefresh(fetch) ==
    /\ command.pc = "refresh"
    /\ switch' = <<SwitchUpdated(switch[1], fetch)>>
    /\ command' = [command EXCEPT
                       !.pc = "idle",
                       !.found = IF fetch = << >>
                                 THEN << >>
                                 ELSE FirstWithNumber(fetch[1], switch[1].number)]
    /\ UNCHANGED <<sensorVars, clientVars, energyVars, parseVars>>

NextSwitch ==
    \/ \E page \in EntityPages : \E k \in 1..MaxEntityBlocks :
           \E fetch \in Fetches : SwitchSetupPlatform(page, k, fetch)
    \/ \E fetch \in Fetches : PollUpdate(fetch)
    \/ \E service \in {"turn_on", "turn_off", "reset"} : CallService(service)
    \/ CommandRaises
    \/ CommandReturns
    \/ \E fetch \in Fetches : CommandRefresh(fetch)

SpecSwitch == InitEntities /\ [][NextSwitch]_vars

----------------------------------------------------------------------------
(* Vocabulary of the properties.                                           *)

\* In this step caller c issues the Basic probe, i.e. starts a negotiation.
StartsProbe(c) == pc[c] # "probe" /\ pc'[c] = "probe"

\* In this step caller c issues its operation's own request.
IssuesOwn(c) == pc[c] # "request" /\ pc'[c] = "request"

\* The request caller c issued last, before and after the step.
LastSent(c) == sent[c][Len(sent[c])]
LastSentNext(c) == sent'[c][Len(sent'[c])]

\* Caller c's negotiation stops in this step with an exception and without
\* the operation's request.
FailsHere(c) ==
    /\ pc'[c] = "done"
    /\ result'[c] \in {"RuntimeError", "TransportError"}
    /\ sent'[c] = sent[c]

\* The verdicts with which _ensure_logged_in returns normally.
Negotiated ==
    {"BasicConfirmed", "BasicAssumed", "SessionConfirmed", "DigestConfirmed",
     "DigestSessionConfirmed"}

----------------------------------------------------------------------------
(* C1: the negotiation is performed at most once per client: once a        *)
(* negotiation has succeeded, no operation issues the Basic probe again.   *)
(* The code runs the whole negotiation in every operation.                 *)
C1_NegotiatedAtMostOnce ==
    [][(negotiator \in Negotiated) => (\A c \in Callers : ~StartsProbe(c))]_vars

(* C2: at most one caller is inside the negotiation sequence at any time,  *)
(* and it is the holder of the lock, so the negotiation requests of two    *)
(* callers never interleave.                                               *)
C2_OneNegotiationAtATime ==
    \A c, d \in Callers :
        pc[c] \in NegotiationPcs =>
            /\ lock = c
            /\ (pc[d] \in NegotiationPcs => d = c)

\* One caller is in the middle of the form login while the other, which
\* called meanwhile, is queued on the lock.
C2_Witness ==
    \E c, d \in Callers :
        /\ c # d
        /\ pc[c] = "login_post"
        /\ pc[d] = "wait"

(* C3: exactly one strategy is recorded: a remembered Basic credential and *)
(* a Digest-capable client are never held together, and a request issued   *)
(* after the recorded verdict uses that verdict's strategy.                *)
StrategyOf(verdict) ==
    CASE verdict \in {"BasicConfirmed", "BasicAssumed"} ->
             [via |-> "aiohttp", auth |-> "basic"]
      [] verdict = "SessionConfirmed" ->
             [via |-> "aiohttp", auth |-> "none"]
      [] OTHER ->
             [via |-> "httpx", auth |-> "digest"]

C3_ExactlyOneStrategy ==
    /\ ~(basic_auth = "auth" /\ httpx_client # 0)
    /\ \A c \in Callers :
          (pc[c] = "request" /\ outcome[c] = negotiator) =>
              /\ LastSent(c).via = StrategyOf(negotiator).via
              /\ LastSent(c).auth = StrategyOf(negotiator).auth

(* C4: a Digest probe (which follows a Basic probe answered 401 with a     *)
(* Digest challenge) answered 200 or 304 ends the negotiation in           *)
(* DigestConfirmed, and from then on every request of an operation goes    *)
(* through the Digest-capable client.                                      *)
C4_DigestConfirmed ==
    [][\A c \in Callers :
          /\ pc[c] = "probe" =>
                \A r \in {x \in Responses : x.status = 401 /\ x.digest /\ ~x.login} :
                    ProbeResp(c, r) =>
                        /\ pc'[c] = "dprobe"
                        /\ LastSentNext(c) = DigestProbe
          /\ pc[c] = "dprobe" =>
                \A r \in {x \in Responses : x.status \in {200, 304}} :
                    DigestProbeResp(c, r) =>
                        /\ sent[c] = << BasicProbe, DigestProbe >>
                        /\ outcome'[c] = "DigestConfirmed"
                        /\ negotiator' = "DigestConfirmed"
                        /\ digest_confirmed'
          /\ (digest_confirmed /\ IssuesOwn(c)) =>
                    /\ LastSentNext(c).via = "httpx"
                    /\ LastSentNext(c).auth = "digest"
      ]_vars

\* Digest was confirmed by an earlier call; a later call, whose Basic probe
\* was accepted, has its request in flight through the httpx client.
C4_Witness ==
    \E c \in Callers :
        /\ digest_confirmed
        /\ pc[c] = "request"
        /\ outcome[c] = "BasicConfirmed"
        /\ LastSent(c).via = "httpx"

(* C5: a Basic probe answered with a redirect to a login path is followed  *)
(* by GET /login, POST /login, GET /main in this order; an accepted POST   *)
(* (200, 302) and a 200 re-check end in SessionConfirmed, and requests     *)
(* issued from then on go through the cookie session without the Basic     *)
(* credential.                                                             *)
C5_FormLogin ==
    [][\A c \in Callers :
          /\ pc[c] = "probe" =>
                \A r \in {x \in Responses : x.status = 302 /\ x.login} :
                    ProbeResp(c, r) => sent'[c] = << BasicProbe, LoginGet >>
          /\ pc[c] = "login_get" =>
                \A r \in Responses :
                    LoginGetResp(c, r) =>
                        sent'[c] = << BasicProbe, LoginGet, LoginPost >>
          /\ pc[c] = "login_post" =>
                \A r \in {x \in Responses : x.status \in {200, 302}} :
                    \A b \in BOOLEAN :
                        LoginPostResp(c, r, b) =>
                            sent'[c] = << BasicProbe, LoginGet, LoginPost, Recheck >>
          /\ pc[c] = "recheck" =>
                \A r \in {x \in Responses : x.status = 200} :
                    RecheckResp(c, r) =>
                        /\ outcome'[c] = "SessionConfirmed"
                        /\ negotiator' = "SessionConfirmed"
          /\ (negotiator = "SessionConfirmed" /\ IssuesOwn(c)) =>
                    /\ LastSentNext(c).via = "aiohttp"
                    /\ LastSentNext(c).auth = "none"
      ]_vars

(* C6: in the form login, a POST /login answered outside {200, 302}, or a  *)
(* re-check of /main answered other than 200, fails the negotiation with   *)
(* an error: SessionConfirmed is not reached and the operation's own       *)
(* request is not issued.                                                  *)
C6_FormLoginFailure ==
    [][\A c \in Callers :
          /\ pc[c] = "login_post" =>
                \A r \in {x \in Responses : x.status \notin {200, 302}} :
                    \A b \in BOOLEAN :
                        LoginPostResp(c, r, b) =>
                            /\ FailsHere(c)
                            /\ outcome'[c] \notin Negotiated
                            /\ b => /\ result'[c] = "RuntimeError"
                                    /\ negotiator' = "Failed"
          /\ pc[c] = "recheck" =>
                \A r \in {x \in Responses : x.status # 200} :
                    RecheckResp(c, r) =>
                        /\ FailsHere(c)
                        /\ result'[c] = "RuntimeError"
                        /\ outcome'[c] = "Failed"
                        /\ negotiator' = "Failed"
      ]_vars

\* One call ended at the refused POST and another at the refused re-check.
C6_Witness ==
    \E c, d \in Callers :
        /\ pc[c] = "done" /\ result[c] = "RuntimeError"
        /\ sent[c] = << BasicProbe, LoginGet, LoginPost >>
        /\ pc[d] = "done" /\ result[d] = "RuntimeError"
        /\ sent[d] = << BasicProbe, LoginGet, LoginPost, Recheck >>

(* C7 (as claimed): a Digest probe answered with a redirect to a login     *)
(* path is followed by the form login of the Basic path, which starts with *)
(* GET /login, on the Digest-capable client.                               *)
C7_SameFormLoginAfterDigest ==
    [][\A c \in Callers :
          pc[c] = "dprobe" =>
              \A r \in {x \in Responses : x.status = 302 /\ x.login} :
                  DigestProbeResp(c, r) =>
                      LastSentNext(c) = Req("GET", "/login", "httpx", "digest")
      ]_vars

(* C7 (amended): a Digest probe answered with a redirect to a login path   *)
(* is followed, on the Digest-capable client, by POST /login and then the  *)
(* re-check of /main, with no GET /login before the POST; a POST answered  *)
(* outside {200, 302} or a re-check answered other than 200 fails the      *)
(* negotiation, and a 200 re-check ends it successfully.                   *)
C7_PostOnlyLoginAfterDigest ==
    [][\A c \in Callers :
          /\ pc[c] = "dprobe" =>
                \A r \in {x \in Responses : x.status = 302 /\ x.login} :
                    DigestProbeResp(c, r) =>
                        sent'[c] = << BasicProbe, DigestProbe, DigestPost >>
          /\ pc[c] = "dlogin_post" =>
                \A r \in Responses :
                    DigestPostResp(c, r) =>
                        IF r.status \in {200, 302}
                        THEN sent'[c] = << BasicProbe, DigestProbe, DigestPost,
                                           DigestRecheck >>
                        ELSE /\ FailsHere(c)
                             /\ result'[c] = "RuntimeError"
                             /\ negotiator' = "Failed"
          /\ pc[c] = "drecheck" =>
                \A r \in Responses :
                    DigestRecheckResp(c, r) =>
                        IF r.status = 200
                        THEN /\ outcome'[c] = "DigestSessionConfirmed"
                             /\ IssuesOwn(c)
                             /\ LastSentNext(c).via = "httpx"
                        ELSE /\ FailsHere(c)
                             /\ result'[c] = "RuntimeError"
                             /\ negotiator' = "Failed"
      ]_vars

\* A call has logged in through the httpx client after the Digest probe was
\* redirected, and another call failed at that path's re-check.
C7_Witness ==
    \E c, d \in Callers :
        /\ pc[c] = "request" /\ outcome[c] = "DigestSessionConfirmed"
        /\ Len(sent[c]) = 5
        /\ pc[d] = "done" /\ result[d] = "RuntimeError"
        /\ sent[d] = << BasicProbe, DigestProbe, DigestPost, DigestRecheck >>

(* C8: a Basic probe answered 401 with nothing usable (no Digest           *)
(* challenge; or a Digest probe answered with neither 200/304 nor a login  *)
(* redirect) ends the negotiation in Failed: the operation raises the      *)
(* authorization error (RuntimeError, neither the HTTP-status nor the      *)
(* transport exception) and does not issue its own request.                *)
C8_Unauthorized ==
    [][\A c \in Callers :
          /\ pc[c] = "probe" =>
                \A r \in {x \in Responses : x.status = 401 /\ ~x.digest /\ ~x.login} :
                    ProbeResp(c, r) =>
                        /\ FailsHere(c)
                        /\ result'[c] = "RuntimeError"
                        /\ outcome'[c] = "Failed"
                        /\ negotiator' = "Failed"
          /\ pc[c] = "dprobe" =>
                \A r \in {x \in Responses : /\ x.status \notin {200, 304}
                                           /\ ~(x.status = 302 /\ x.login)} :
                    DigestProbeResp(c, r) =>
                        /\ FailsHere(c)
                        /\ result'[c] = "RuntimeError"
                        /\ outcome'[c] = "Failed"
                        /\ negotiator' = "Failed"
      ]_vars

\* One call was refused at the Basic probe, another at the Digest probe.
C8_Witness ==
    \E c, d \in Callers :
        /\ pc[c] = "done" /\ outcome[c] = "Failed"
        /\ sent[c] = << BasicProbe >>
        /\ pc[d] = "done" /\ outcome[d] = "Failed"
        /\ sent[d] = << BasicProbe, DigestProbe >>

(* C9: once a negotiation has ended in Failed the failure is remembered:   *)
(* later operations do not run the probe sequence again.                   *)
(* The code keeps nothing of a failure and probes again in every call.     *)
C9_FailureRemembered ==
    [][negotiator = "Failed" => (\A c \in Callers : ~StartsProbe(c))]_vars

(* C10: a Basic probe answered 200 or 304 ends the negotiation in          *)
(* BasicConfirmed with no further negotiation request, and every request   *)
(* issued from then on presents the Basic credential.                      *)
C10_BasicConfirmed ==
    [][\A c \in Callers :
          /\ pc[c] = "probe" =>
                \A r \in {x \in Responses : x.status \in {200, 304}} :
                    ProbeResp(c, r) =>
                        /\ outcome'[c] = "BasicConfirmed"
                        /\ negotiator' = "BasicConfirmed"
                        /\ IssuesOwn(c)
                        /\ Len(sent'[c]) = 2
                        /\ LastSentNext(c).auth = "basic"
          /\ (negotiator = "BasicConfirmed" /\ IssuesOwn(c)) =>
                    LastSentNext(c).auth = "basic"
      ]_vars

(* C11: a Basic probe answered with a status other than 200, 304 and 401   *)
(* and without a Location naming a login path does not fail the            *)
(* negotiation: the Basic credential is remembered, and the operation's    *)
(* own request, as every later one, presents it; an error can only come    *)
(* from that request.                                                      *)
C11_BasicAssumed ==
    [][\A c \in Callers :
          /\ pc[c] = "probe" =>
                \A r \in {x \in Responses : x.status \notin {200, 304, 401} /\ ~x.login} :
                    ProbeResp(c, r) =>
                        /\ outcome'[c] = "BasicAssumed"
                        /\ basic_auth' = "auth"
                        /\ IssuesOwn(c)
                        /\ result'[c] = result[c]
                        /\ LastSentNext(c).via = "aiohttp"
                        /\ LastSentNext(c).auth = "basic"
          /\ (negotiator = "BasicAssumed" /\ IssuesOwn(c)) =>
                    LastSentNext(c).auth = "basic"
      ]_vars

(* C12: turn_on, turn_off and reset succeed exactly when the command GET   *)
(* is answered 200 or 302; every other status, other 2xx and 3xx           *)
(* included, makes the operation fail with the HTTP-status error, through  *)
(* the aiohttp session as through the httpx client.                        *)
C12_CommandSuccess ==
    [][\A c \in Callers :
          (pc[c] = "request" /\ pc'[c] = "done" /\ IsCommand(op[c])) =>
              \A r \in Responses :
                  OwnResp(c, r) =>
                      IF r.status \in {200, 302}
                      THEN result'[c] = "ok"
                      ELSE result'[c] = "HTTPStatusError"
      ]_vars

Progress(p) ==
    CASE p = "idle" -> 0
      [] p = "wait" -> 1
      [] p = "probe" -> 2
      [] p \in {"login_get", "dprobe"} -> 3
      [] p \in {"login_post", "dlogin_post"} -> 4
      [] p \in {"recheck", "drecheck"} -> 5
      [] p = "request" -> 6
      [] OTHER -> 7

C14_BoundedRequests ==
    [][\A c \in Callers :
          /\ Len(sent'[c]) <= 5
          /\ pc'[c] \in NegotiationPcs => Len(sent'[c]) <= 4
          /\ (pc'[c] # pc[c] /\ pc[c] # "done") =>
                /\ Progress(pc'[c]) > Progress(pc[c])
                /\ \/ pc'[c] \in {"wait", "done"} /\ Len(sent'[c]) <= Len(sent[c])
                   \/ /\ Len(sent'[c]) = Len(sent[c]) + 1
                      /\ SubSeq(sent'[c], 1, Len(sent[c])) = sent[c]
          /\ (pc[c] \in NegotiationPcs \cup {"request"} /\ pc'[c] # pc[c]) =>
                ((\/ ProbeResp(c, TransportFailure)
                 \/ LoginGetResp(c, TransportFailure)
                 \/ \E b \in BOOLEAN : LoginPostResp(c, TransportFailure, b)
                 \/ RecheckResp(c, TransportFailure)
                 \/ DigestProbeResp(c, TransportFailure)
                 \/ DigestPostResp(c, TransportFailure)
                 \/ DigestRecheckResp(c, TransportFailure)
                 \/ OwnResp(c, TransportFailure))
                    => /\ pc'[c] = "done"
                       /\ result'[c] = "TransportError"
                       /\ Len(sent'[c]) <= Len(sent[c]))
      ]_vars

\* A call has gone through the longest sequence: four negotiation requests
\* and its own request.
C14_Witness ==
    \E c \in Callers :
        /\ pc[c] = "request"
        /\ Len(sent[c]) = 5

(* C15: after async_close, with no operation in flight, every transport   *)
(* the client created has been released: once the client holds neither a   *)
(* session of its own nor an httpx client any more, no aiohttp session it  *)
(* created and no httpx client it ever instantiated is left open.          *)
Quiescent == \A c \in Callers : pc[c] \in {"idle", "done"}

C15_AllReleasedAfterClose ==
    (close_pc = "idle" /\ Quiescent /\ session # "own" /\ httpx_client = 0) =>
        (own_open = 0 /\ httpx_open = {})

(* C16: the session supplied at construction is never closed by the        *)
(* client and stays its session, whatever operations and closes are run;   *)
(* async_close closes only a session the client created.                   *)
C16_ExternalSessionKept ==
    [][session = "ext" => (session' = "ext" /\ ~ext_closed' /\ ~own_session')]_vars

\* With a supplied session, async_close has passed the session, has closed
\* the httpx client a negotiation had created and awaits the end of aclose.
C16_Witness ==
    /\ session = "ext"
    /\ close_pc = "httpx"
    /\ httpx_made > 0
    /\ httpx_open = {}

(* C17: the cumulative energy never decreases across an observation, for   *)
(* every power sample the extractor can produce and every timestamp; only  *)
(* the restore may lower it.                                               *)
C17_NeverDecreases ==
    [][(\E power \in OptSamples, now \in Hours : Observe(power, now)) =>
           total_energy' >= total_energy]_vars

(* C18: with non-negative samples, timestamps that do not go back and at   *)
(* most 24 hours between consecutive samples, the cumulative energy after  *)
(* an observation is at least its value before.                            *)
C18_MonotoneOnGoodInput ==
    [][\A p \in Samples, now \in Hours :
          (/\ p >= 0
           /\ last_power # << >> => last_power[1] >= 0
           /\ last_update # << >> =>
                  /\ now >= last_update[1]
                  /\ now - last_update[1] <= 24
           /\ Observe(<<p>>, now)) =>
              total_energy' >= total_energy
      ]_vars

\* 100 W, then 200 W exactly 24 hours later: 3.6 kWh were added.
C18_Witness ==
    /\ ~restored
    /\ observations = 2
    /\ last_power = <<200>>
    /\ total_energy = 7200

(* C19: when more than 24 hours lie between the previous sample and the    *)
(* new one, the observation adds exactly power * 24 / 1000 kWh, with the   *)
(* new sample's power alone (30 hours at 200 W add 4.8 kWh, not 6.0), and  *)
(* the new sample becomes the last power and the last sample time.         *)
C19_CappedGap ==
    [][\A p \in Samples, now \in Hours :
          (/\ last_power # << >>
           /\ last_update # << >>
           /\ now - last_update[1] > 24
           /\ Observe(<<p>>, now)) =>
              /\ 1000 * (total_energy' - total_energy) = p * 24 * UnitsPerKwh
              /\ (p = 200 /\ now - last_update[1] = 30) =>
                     /\ 10 * (total_energy' - total_energy) = 48 * UnitsPerKwh
                     /\ total_energy' - total_energy # 6 * UnitsPerKwh
              /\ last_power' = <<p>>
              /\ last_update' = <<now>>
      ]_vars

\* A sample of 200 W taken at hour 31, more than 24 hours after the first
\* one, has added 4.8 kWh.
C19_Witness ==
    /\ ~restored
    /\ observations = 2
    /\ last_power = <<200>>
    /\ last_update = <<31>>
    /\ total_energy = 9600

(* C20: when between 0 and 24 hours, both included, lie between the        *)
(* previous sample and the new one, the observation adds exactly           *)
(* ((power + lastPower) / 2) * dt / 1000 kWh (100 W and 100 W one hour     *)
(* later add 0.1 kWh), and the new sample becomes the last power and the   *)
(* last sample time.                                                       *)
C20_Trapezoid ==
    [][\A p \in Samples, now \in Hours :
          (/\ last_power # << >>
           /\ last_update # << >>
           /\ now - last_update[1] >= 0
           /\ now - last_update[1] <= 24
           /\ Observe(<<p>>, now)) =>
              /\ 2000 * (total_energy' - total_energy) =
                     (p + last_power[1]) * (now - last_update[1]) * UnitsPerKwh
              /\ (p = 100 /\ last_power[1] = 100 /\ now - last_update[1] = 1) =>
                     10 * (total_energy' - total_energy) = UnitsPerKwh
              /\ last_power' = <<p>>
              /\ last_update' = <<now>>
      ]_vars

\* 100 W at hour 30 and 100 W at hour 31 have added 0.1 kWh.
C20_Witness ==
    /\ ~restored
    /\ observations = 2
    /\ last_power = <<100>>
    /\ last_update = <<31>>
    /\ total_energy = 200

(* C21: when the new sample's time is earlier than the last sample time    *)
(* (dt < 0) the observation adds no energy, yet the new sample becomes the *)
(* last power and the last sample time, so that the next interval is       *)
(* measured from the regressed time.                                       *)
C21_ClockRegression ==
    [][\A p \in Samples, now \in Hours :
          (/\ last_update # << >>
           /\ now < last_update[1]
           /\ Observe(<<p>>, now)) =>
              /\ total_energy' = total_energy
              /\ last_power' = <<p>>
              /\ last_update' = <<now>>
      ]_vars

\* 100 W at hour 0 and 200 W at hour 24 have added 3.6 kWh; the third
\* sample, 100 W stamped hour 1, added nothing and is the last sample.
C21_Witness ==
    /\ ~restored
    /\ observations = 3
    /\ total_energy = 7200
    /\ last_power = <<100>>
    /\ last_update = <<1>>

(* C22: an update without power (no data, total watts absent, the outlet   *)
(* not in the refreshed list or without watts) changes nothing in either   *)
(* sensor: last power, last sample time and cumulative energy stay.        *)
C22_NilObservation ==
    [][\A now \in Hours :
          ObserveBoth(<< >>, now) =>
              /\ UNCHANGED <<last_power, last_update, total_energy>>
              /\ UNCHANGED <<outlet_last_power, outlet_last_update,
                             outlet_total_energy>>
      ]_vars

\* Two updates without power have been handled by both sensors, which
\* still hold the initial power and no sample time.
C22_Witness ==
    /\ ~restored
    /\ observations = 2
    /\ last_power = <<100>>
    /\ last_update = << >>
    /\ outlet_last_power = <<100>>
    /\ outlet_last_update = << >>
    /\ outlet_total_energy = 0

(* C23: the first observation with power of a sensor that has no last      *)
(* sample time adds nothing to the cumulative energy and only records the  *)
(* sample as last power and last sample time, whatever initial power the   *)
(* sensor was constructed with.                                            *)
C23_FirstObservation ==
    [][\A p \in Samples, now \in Hours :
          (/\ last_update = << >>
           /\ Observe(<<p>>, now)) =>
              /\ total_energy' = total_energy
              /\ last_power' = <<p>>
              /\ last_update' = <<now>>
      ]_vars

\* The one update handled so far carried 200 W at hour 55: it is recorded
\* and nothing was added.
C23_Witness ==
    /\ ~restored
    /\ observations = 1
    /\ last_power = <<200>>
    /\ last_update = <<55>>
    /\ total_energy = 0

(* C24: the restore of the persisted state happens at most once and before *)
(* the first observation: when async_added_to_hass restores, the sensor    *)
(* has restored nothing before and has integrated no coordinator update    *)
(* since it subscribed (it holds no sample time).                          *)
(* The sensor subscribes first and awaits the persisted state afterwards;  *)
(* an update dispatched in between is handled before the restore.          *)
C24_RestoreBeforeObserve ==
    [][(\E stored \in BOOLEAN, e \in RestoredEnergies, t \in Hours, lp \in OptSamples :
            Restore(stored, e, t, lp)) =>
           (~restored /\ last_update = << >>)]_vars

(* C25: the whole-device sensor and the outlet's sensor are one algorithm: *)
(* constructed with the same initial power, fed the same updates and the   *)
(* same persisted state, they hold the same last power, last sample time   *)
(* and cumulative energy after every step.                                 *)
(* The outlet's async_added_to_hass handles an update of its own after     *)
(* restoring; the whole-device one does not.                               *)
C25_SameAlgorithm ==
    /\ outlet_last_power = last_power
    /\ outlet_last_update = last_update
    /\ outlet_total_energy = total_energy

----------------------------------------------------------------------------
(* Vocabulary of the extractor's properties.                               *)

\* The index labels that spell an integer, with the integer.
LabelNumber ==
    (<<"1">> :> 1) @@ (<<"2">> :> 2) @@ (<<"3">> :> 3) @@ (<<"0">> :> 0) @@
    (<<"-", "1">> :> -1)

\* A block with index label, name label and toggle, whose index is an integer.
WellFormed(block) ==
    /\ block.number_el # << >>
    /\ block.name_el # << >>
    /\ block.input_el # << >>
    /\ block.number_el[1] \in DOMAIN LabelNumber

\* The number a fragment shows once its own unit is taken off, << >> when
\* what is left is not a number.
FragmentWatts ==
    (<<"1", "2", "W">> :> <<12>>) @@ (<<"2", "A">> :> << >>) @@
    (<<"0">> :> <<0>>) @@ (<<"x">> :> << >>)
FragmentAmps ==
    (<<"1", "2", "W">> :> << >>) @@ (<<"2", "A">> :> <<2>>) @@
    (<<"0">> :> <<0>>) @@ (<<"x">> :> << >>)

\* The index labels of the page's blocks, in document order.
LabelsInOrder == [i \in DOMAIN html.blocks |-> html.blocks[i].number_el]

\* The numbers of the returned outlets, in the order returned.
NumbersReturned == [i \in DOMAIN outlets[1] |-> outlets[1][i].number]

(* C26: the list parse_outlets_from_html returns is in ascending order of  *)
(* number whatever the order of the blocks in the page; blocks labelled    *)
(* 3, 1, 2 in document order give the outlets 1, 2, 3.                     *)
C26_SortedByNumber ==
    outlets # << >> =>
        /\ \A i, j \in DOMAIN outlets[1] :
               i < j => outlets[1][i].number <= outlets[1][j].number
        /\ (/\ LabelsInOrder = << << <<"3">> >>, << <<"1">> >>, << <<"2">> >> >>
            /\ \A i \in DOMAIN html.blocks : WellFormed(html.blocks[i])) =>
               NumbersReturned = <<1, 2, 3>>

\* The page with blocks 3, 1, 2 has been parsed into the outlets 1, 2, 3.
C26_Witness ==
    /\ outlets # << >>
    /\ LabelsInOrder = << << <<"3">> >>, << <<"1">> >>, << <<"2">> >> >>
    /\ \A i \in DOMAIN html.blocks : WellFormed(html.blocks[i])
    /\ NumbersReturned = <<1, 2, 3>>

(* C27: the numbers of the outlets of one parse are pairwise distinct      *)
(* positive integers, for every page, pages with a repeated or a           *)
(* non-positive index label included.                                      *)
(* The code takes int() of every label and keeps every block.              *)
C27_DistinctPositiveNumbers ==
    outlets # << >> =>
        \A i, j \in DOMAIN outlets[1] :
            /\ outlets[1][i].number > 0
            /\ i # j => outlets[1][i].number # outlets[1][j].number

\* An optional number: absent, or one integer.
IsOptionalNumber(v) == v = << >> \/ (Len(v) = 1 /\ v[1] \in Int)

\* A list of OutletInfo no longer than the page's list of blocks.
IsOutletList(list) ==
    /\ Len(list) <= Len(html.blocks)
    /\ \A i \in DOMAIN list :
           /\ list[i].number \in Int
           /\ list[i].is_on \in BOOLEAN
           /\ list[i].is_reset_only \in BOOLEAN
           /\ IsOptionalNumber(list[i].watts)
           /\ IsOptionalNumber(list[i].amps)

\* A DeviceMetrics.
IsDeviceMetrics(m) ==
    /\ IsOptionalNumber(m.voltage)
    /\ IsOptionalNumber(m.total_watts)
    /\ IsOptionalNumber(m.total_amps)

(* C28: both extractors have a result for every page, a list of OutletInfo *)
(* and a DeviceMetrics; a block without index label, name label or toggle, *)
(* or whose index is not an integer, is left out, and every other block is *)
(* returned: each number is returned as often as well-formed blocks carry  *)
(* it.                                                                     *)
C28_NeverFails ==
    /\ IsOutletList(parse_outlets_from_html(html))
    /\ IsDeviceMetrics(parse_metrics_from_html(html))
    /\ outlets # << >> =>
           /\ IsOutletList(outlets[1])
           /\ \A i \in DOMAIN outlets[1] : outlets[1][i].number \in -1..3
           /\ \A n \in -1..3 :
                  Cardinality({i \in DOMAIN outlets[1] : outlets[1][i].number = n})
                      = Cardinality({i \in DOMAIN html.blocks :
                                        /\ WellFormed(html.blocks[i])
                                        /\ LabelNumber[html.blocks[i].number_el[1]] = n})
    /\ metrics # << >> => IsDeviceMetrics(metrics[1])

\* Of three blocks, the first with the index "x" and the second without
\* toggle, the third alone has been returned; the metrics are parsed too.
C28_Witness ==
    /\ outlets # << >>
    /\ metrics # << >>
    /\ Len(html.blocks) = 3
    /\ html.blocks[1].number_el = << <<"x">> >>
    /\ html.blocks[2].input_el = << >>
    /\ WellFormed(html.blocks[3])
    /\ Len(outlets[1]) = 1
    /\ outlets[1][1].number = LabelNumber[html.blocks[3].number_el[1]]

(* C29: watts and amps of an outlet are parsed independently: the outlet   *)
(* of a block with both fragments is returned with, for each field, the    *)
(* number its fragment shows, and with the field absent (not 0) when the   *)
(* fragment is not a number, whatever the other fragment is.               *)
C29_IndependentFields ==
    outlets # << >> =>
        \A i \in DOMAIN html.blocks :
            (WellFormed(html.blocks[i]) /\ Len(html.blocks[i].stat_ps) >= 2) =>
                \E k \in DOMAIN outlets[1] :
                    /\ outlets[1][k].number = LabelNumber[html.blocks[i].number_el[1]]
                    /\ outlets[1][k].watts = FragmentWatts[html.blocks[i].stat_ps[1]]
                    /\ outlets[1][k].amps = FragmentAmps[html.blocks[i].stat_ps[2]]

\* The page's one block shows "12W" and "x": the outlet has 12 watts and
\* no amps.
C29_Witness ==
    /\ outlets # << >>
    /\ Len(html.blocks) = 1
    /\ html.blocks[1].stat_ps = << <<"1", "2", "W">>, <<"x">> >>
    /\ Len(outlets[1]) = 1
    /\ outlets[1][1].watts = <<12>>
    /\ outlets[1][1].amps = << >>

(* C30: is_on is the toggle's checked marker and is_reset_only its         *)
(* disabled marker, each whatever the other is, for all four combinations; *)
(* a toggle with both markers gives is_on and is_reset_only both true.     *)
C30_IndependentMarkers ==
    outlets # << >> =>
        \A i \in DOMAIN html.blocks :
            WellFormed(html.blocks[i]) =>
                \E k \in DOMAIN outlets[1] :
                    /\ outlets[1][k].number = LabelNumber[html.blocks[i].number_el[1]]
                    /\ outlets[1][k].is_on = html.blocks[i].input_el[1].checked
                    /\ outlets[1][k].is_reset_only = html.blocks[i].input_el[1].disabled

\* Outlets 1, 2 and 3 have been returned: checked and disabled, checked
\* only, disabled only.
C30_Witness ==
    /\ outlets # << >>
    /\ NumbersReturned = <<1, 2, 3>>
    /\ outlets[1][1].is_on /\ outlets[1][1].is_reset_only
    /\ outlets[1][2].is_on /\ ~outlets[1][2].is_reset_only
    /\ ~outlets[1][3].is_on /\ outlets[1][3].is_reset_only
    /\ html.blocks[1].input_el = <<Toggle(TRUE, TRUE)>>

\* The sum, over the first n blocks of the page, of the numbers that the
\* well-formed blocks with both fragments show in fragment pos.
RECURSIVE BlockTotal(_, _, _)
BlockTotal(n, table, pos) ==
    IF n = 0
    THEN 0
    ELSE BlockTotal(n - 1, table, pos) +
         (LET block == html.blocks[n]
          IN  IF /\ WellFormed(block)
                 /\ Len(block.stat_ps) >= 2
                 /\ table[block.stat_ps[pos]] # << >>
              THEN table[block.stat_ps[pos]][1]
              ELSE 0)

(* C31: on a page without the POWER/CURRENT cell parse_metrics_from_html   *)
(* gives no total watts and no total amps, and async_fetch_metrics returns *)
(* as totals the sums of the watts and of the amps of the page's outlets   *)
(* that have the value, from the one page it loaded: it issues no second   *)
(* GET of /main.                                                           *)
C31_FallbackTotals ==
    html.power_cell = << >> =>
        /\ metrics # << >> =>
               /\ metrics[1].total_watts = << >>
               /\ metrics[1].total_amps = << >>
        /\ fetched # << >> =>
               /\ fetched[1].total_watts =
                      <<BlockTotal(Len(html.blocks), FragmentWatts, 1)>>
               /\ fetched[1].total_amps =
                      <<BlockTotal(Len(html.blocks), FragmentAmps, 2)>>
               /\ main_gets = 1

\* Three outlets showing ("x", "2A"), ("12W", "x") and ("12W", "2A") on a
\* page without totals: 24 watts and 4 amps are returned.
C31_Witness ==
    /\ fetched # << >>
    /\ metrics # << >>
    /\ html.power_cell = << >>
    /\ Len(html.blocks) = 3
    /\ html.blocks[1].stat_ps = << <<"x">>, <<"2", "A">> >>
    /\ html.blocks[2].stat_ps = << <<"1", "2", "W">>, <<"x">> >>
    /\ html.blocks[3].stat_ps = << <<"1", "2", "W">>, <<"2", "A">> >>
    /\ fetched[1].total_watts = <<24>>
    /\ fetched[1].total_amps = <<4>>

(* C36: every DeviceMetrics async_fetch_metrics returns has total watts    *)
(* and total amps: a total the page does not give is the outlets' sum, 0   *)
(* when no outlet has the value; the power the whole-device energy sensor  *)
(* reads from a successful refresh is therefore never absent.              *)
C36_TotalsPresent ==
    fetched # << >> =>
        /\ fetched[1].total_watts # << >>
        /\ fetched[1].total_amps # << >>
        /\ (/\ html.power_cell = << >>
            /\ \A i \in DOMAIN html.blocks :
                   ~(WellFormed(html.blocks[i]) /\ Len(html.blocks[i].stat_ps) >= 2)) =>
               /\ fetched[1].total_watts = <<0>>
               /\ fetched[1].total_amps = <<0>>

\* The totals cell shows "12W" and "x", the page's outlet "2A": the total
\* watts are the page's, the total amps the outlet's.
C36_Witness ==
    /\ fetched # << >>
    /\ html.power_cell # << >>
    /\ html.power_cell[1].sibling
    /\ html.power_cell[1].lines = << <<"1", "2", "W">>, <<"x">> >>
    /\ Len(html.blocks) = 1
    /\ fetched[1].total_watts = <<12>>
    /\ fetched[1].total_amps = <<2>>

(* C33: an operation sends its own request with the strategy its own       *)
(* negotiation has just resolved to: after a Basic verdict through the     *)
(* aiohttp session with the Basic credential, after a session-cookie       *)
(* verdict through the aiohttp session without credential, also when an    *)
(* earlier negotiation of the client had resolved to Digest.               *)
(* The operations test _httpx_client first, and a Digest negotiation's     *)
(* client stays installed.                                                 *)
C33_RequestFollowsOwnNegotiation ==
    [][\A c \in Callers :
          IssuesOwn(c) =>
              /\ outcome'[c] \in {"BasicConfirmed", "BasicAssumed"} =>
                     /\ LastSentNext(c).via = "aiohttp"
                     /\ LastSentNext(c).auth = "basic"
              /\ outcome'[c] = "SessionConfirmed" =>
                     /\ LastSentNext(c).via = "aiohttp"
                     /\ LastSentNext(c).auth = "none"
      ]_vars

\* The httpx client the client holds was installed by caller c's
\* negotiation, which is still running: it went through the Digest probe.
InstalledDuringAttempt(c) ==
    /\ httpx_client' # 0
    /\ \E i \in DOMAIN sent[c] : sent[c][i] = DigestProbe

(* C34: a negotiation that fails leaves the recorded auth state as it was  *)
(* before the attempt: no step of it up to the failure changes the         *)
(* remembered Basic credential, and when it fails the client holds no      *)
(* httpx client that the attempt installed.                                *)
(* The Digest branch installs its httpx client before probing with it.     *)
C34_FailureChangesNothing ==
    [][\A c \in Callers :
          /\ (pc[c] \in NegotiationPcs /\ pc'[c] \in NegotiationPcs \cup {"done"}) =>
                 basic_auth' = basic_auth
          /\ (pc[c] \in NegotiationPcs /\ FailsHere(c)) =>
                 ~InstalledDuringAttempt(c)
      ]_vars


(* C32: a metering point never shows a fabricated zero.  In every step
   after which an outlet's power or current sensor exists and the first
   outlet of its number in the coordinator's data has no watts (amps), the
   sensor does not show 0 unless it showed 0 before the step: it keeps its
   previous value or shows no data. *)
FabricatesZero(before, after, key) ==
    /\ after # << >>
    /\ coordinator_data' # << >>
    /\ LET found == FirstWithNumber(coordinator_data'[1].outlets,
                                    after[1].outlet_number)
       IN  /\ found # << >>
           /\ found[1][key] = << >>
    /\ after[1].state = <<0>>
    /\ (before = << >> \/ before[1].state # <<0>>)
C32_NoFabricatedZero ==
    [][/\ ~FabricatesZero(power_sensor, power_sensor', "watts")
       /\ ~FabricatesZero(amps_sensor, amps_sensor', "amps")
      ]_vars


(* C37: a turn-on or turn-off service call changes the switch's is_on only
   after the client's command succeeded.  Starting the call leaves is_on
   alone; when the command fails the call ends with the error raised and
   is_on as it was; when it succeeds is_on becomes the commanded value; and
   when the follow-up refresh finds the outlet, is_on becomes the state the
   device reports and the call returns normally. *)
Commanded == command.service = "turn_on"
C37_OptimisticOnlyAfterSuccess ==
    [][command.service' \in {"turn_on", "turn_off"} =>
           /\ (command.pc = "idle" /\ command.pc' = "sent") =>
                  switch'[1].is_on = switch[1].is_on
           /\ (command.pc = "sent" /\ command.pc' = "idle") =>
                  /\ command.raised'
                  /\ switch'[1].is_on = switch[1].is_on
           /\ (command.pc = "sent" /\ command.pc' = "refresh") =>
                  switch'[1].is_on = Commanded
           /\ (command.pc = "refresh" /\ command.pc' = "idle"
                   /\ command.found' # << >>) =>
                  /\ ~command.raised'
                  /\ switch'[1].is_on = command.found'[1].is_on
      ]_vars

\* A turn-on call has returned: its command succeeded, and its refresh found
\* the outlet reported off, so the switch shows off.
C37_Witness ==
    /\ command.pc = "idle"
    /\ command.service = "turn_on"
    /\ ~command.raised
    /\ command.found # << >>
    /\ ~command.found[1].is_on
    /\ ~switch[1].is_on

\* A turn-off call has ended with the error raised while the switch shows on.
C37_WitnessFailure ==
    /\ command.pc = "idle"
    /\ command.service = "turn_off"
    /\ command.raised
    /\ switch[1].is_on


(* C35: the negotiation lock is released on every exit.  Provided every
   request is answered and the first queued task is resumed when the lock is
   free, every operation waiting for the lock eventually enters its own
   negotiation, whatever way the negotiations before it ended. *)
C35_WaitersEnter ==
    \A c \in Callers : (pc[c] = "wait") ~> (pc[c] = "probe" /\ lock = c)

\* Caller 1's negotiation has failed and caller 2 is in its own.
C35_Witness ==
    /\ pc[1] = "done"
    /\ outcome[1] \in {"Aborted", "Failed"}
    /\ result[1] \in {"RuntimeError", "TransportError"}
    /\ pc[2] = "probe"
    /\ lock = 2

====
